---- MODULE Spec2Model ----
(***************************************************************************)
(* Hangman: one round of play_hangman and the replay loop of main, in the  *)
(* two revisions of the repository (hangman_game.py and                    *)
(* hangman_game_Version2.py).                                              *)
(*                                                                         *)
(* hangman_game_Version2.py holds the display functions and play_hangman   *)
(* only; its play_hangman calls validate_guess, display_game_state and     *)
(* load_words of hangman_game.py.                                          *)
(*                                                                         *)
(* A Python str is a sequence of characters; a character is a one-element  *)
(* TLA+ string ("a", " ", "5").  "eacute" stands for one non-ASCII         *)
(* alphabetic character.  A one-letter str such as 'a' is <<"a">>.         *)
(***************************************************************************)
EXTENDS Integers, Sequences, FiniteSets, TLC

VARIABLES
    version,            \* 1: hangman_game.py, 2: hangman_game_Version2.py
    secret_word,        \* str, fixed for the round
    guessed_letters,    \* set of str
    incorrect_guesses,  \* int
    turns_taken,        \* int
    status,             \* the round: "InProgress" | "Won" | "Lost" | "Interrupted"
    pc,                 \* main: "play" (in play_hangman) | "again" | "exit"
    screen,             \* what display_game_status printed last
    message,            \* the closing message printed: win, lose, interrupted
    retval,             \* what play_hangman returned: "None" | "True" | "False"
    last                \* outcome of the last iteration: (is_valid, result), or the error

vars == <<version, secret_word, guessed_letters, incorrect_guesses,
          turns_taken, status, pc, screen, message, retval, last>>

-----------------------------------------------------------------------------
(* Bounds of the model *)

\* inputs read in one round (turns_taken of Version2 counts rejected ones too)
MaxTurns == 8
\* longest run of blanks put around an input handed to validate_guess
MaxPad == 1

(* Program constants *)
max_incorrect_guesses == 6

-----------------------------------------------------------------------------
(* Characters and strings *)

Lowercase == {"a", "b", "c", "d", "e", "f", "g", "h"}
Uppercase == {"A", "C"}
Char == Lowercase \cup Uppercase \cup {" ", "5", "eacute"}

\* str.isspace on one character
IsSpace(c) == c = " "

\* str.lower on one character
LowerChar(c) == CASE c = "A" -> "a" [] c = "C" -> "c" [] OTHER -> c

\* str.lower
lower(s) == [i \in 1..Len(s) |-> LowerChar(s[i])]

\* str.strip: drop leading and trailing whitespace
RECURSIVE lstrip(_)
lstrip(s) == IF s # <<>> /\ IsSpace(Head(s)) THEN lstrip(Tail(s)) ELSE s

RECURSIVE rstrip(_)
rstrip(s) ==
    IF s # <<>> /\ IsSpace(s[Len(s)]) THEN rstrip(SubSeq(s, 1, Len(s) - 1)) ELSE s

strip(s) == rstrip(lstrip(s))

\* str.isascii, str.isalpha
isascii(s) == \A i \in 1..Len(s) : s[i] # "eacute"
isalpha(s) ==
    /\ s # <<>>
    /\ \A i \in 1..Len(s) : s[i] \in Lowercase \cup Uppercase \cup {"eacute"}

\* sub in s, for two str: substring test
InStr(sub, s) ==
    \E i \in 0..(Len(s) - Len(sub)) : SubSeq(s, i + 1, i + Len(sub)) = sub

-----------------------------------------------------------------------------
(* Inputs *)

\* the word list handed to random.choice
word_list == {<<"a", "b">>, <<"b", "a", "a">>}

\* the lines the player types
RawInputs ==
    {<<c>> : c \in Lowercase \cup {"A", "5", "eacute", " "}}
    \cup {<<>>, <<"a", "b">>, <<" ", "a">>}

\* answers to the play-again prompt, after strip().lower()
Answers == {<<"y">>, <<"y", "e", "s">>, <<"n">>, <<"n", "o">>, <<"a">>}

-----------------------------------------------------------------------------
(* hangman_game.py: pure functions *)

EmptyInput == "Please enter a letter."
NotSingleLetter == "Please enter a single letter."
NotALetter == "Please enter a letter from A-Z."
AlreadyGuessed == "You already guessed"
ErrorProcessing == "Error processing guess"

Rejected(msg, guess) == [ok |-> FALSE, msg |-> msg, guess |-> guess]
Accepted(guess) == [ok |-> TRUE, msg |-> "", guess |-> guess]

\* the alphabetic test made before the length test
validate_guess_AlphaFirst(raw_guess, guessed) ==
    LET guess == strip(raw_guess) IN
    IF guess = <<>> THEN Rejected(EmptyInput, <<>>)
    ELSE IF ~isascii(guess) \/ ~isalpha(guess) THEN Rejected(NotALetter, <<>>)
    ELSE IF Len(guess) # 1 THEN Rejected(NotSingleLetter, <<>>)
    ELSE IF lower(guess) \in guessed THEN Rejected(AlreadyGuessed, lower(guess))
    ELSE Accepted(lower(guess))

\* the test for an already guessed letter left out
validate_guess_NoDup(raw_guess, guessed) ==
    LET guess == strip(raw_guess) IN
    IF guess = <<>> THEN Rejected(EmptyInput, <<>>)
    ELSE IF Len(guess) # 1 THEN Rejected(NotSingleLetter, <<>>)
    ELSE IF ~isascii(guess) \/ ~isalpha(guess) THEN Rejected(NotALetter, <<>>)
    ELSE Accepted(lower(guess))

\* (input() returns a str, so the `raw_guess is None` branch is never taken)
validate_guess(raw_guess, guessed) ==
    LET guess == strip(raw_guess) IN
    IF guess = <<>> THEN Rejected(EmptyInput, <<>>)
    ELSE IF Len(guess) # 1 THEN Rejected(NotSingleLetter, <<>>)
    ELSE IF ~isascii(guess) \/ ~isalpha(guess) THEN Rejected(NotALetter, <<>>)
    ELSE IF lower(guess) \in guessed THEN Rejected(AlreadyGuessed, lower(guess))
    ELSE Accepted(lower(guess))

\* only the first occurrence of a guessed letter is revealed
display_game_state_FirstOnly(word, guessed) ==
    [i \in 1..(2 * Len(word) - 1) |->
        IF i % 2 = 0 THEN " "
        ELSE IF /\ <<word[(i + 1) \div 2]>> \in guessed
                /\ \A j \in 1..((i + 1) \div 2 - 1) : word[j] # word[(i + 1) \div 2]
             THEN word[(i + 1) \div 2]
             ELSE "_"]

\* " ".join((c if c in guessed_letters else "_") for c in word)
display_game_state(word, guessed) ==
    [i \in 1..(2 * Len(word) - 1) |->
        IF i % 2 = 0 THEN " "
        ELSE IF <<word[(i + 1) \div 2]>> \in guessed
             THEN word[(i + 1) \div 2]
             ELSE "_"]

Max(a, b) == IF a >= b THEN a ELSE b
Min(a, b) == IF a <= b THEN a ELSE b

\* the lines of the art; a line is the sequence of its characters
Sp(n) == [i \in 1..n |-> " "]
Indent == Sp(11)
Beam == Indent \o [i \in 1..8 |-> "-"]
Rope == Indent \o <<"|">> \o Sp(6) \o <<"|">>
HeadRow == Indent \o <<"|">> \o Sp(6) \o <<"O">>
Arms == Indent \o <<"|">> \o Sp(5) \o <<"\\", "|", "/">>
OneArm == Indent \o <<"|">> \o Sp(5) \o <<"\\", "|">>
Torso == Indent \o <<"|">> \o Sp(6) \o <<"|">>
LeftLeg == Indent \o <<"|">> \o Sp(5) \o <<"/">>
Legs == Indent \o <<"|">> \o Sp(5) \o <<"/", " ", "\\">>
Pole == Indent \o <<"|">>
Base == Indent \o <<"-">>
Closing == Sp(8)

\* the stage list of hangman_game.py, each string split at its newlines; in
\* the first string the backslash that ends the legs line is followed by the
\* newline, which the string literal takes as a line continuation
stages ==
    << << <<>>, Beam, Rope, HeadRow, Arms, Torso, LeftLeg \o <<" ">> \o Base, Closing >>,
       << <<>>, Beam, Rope, HeadRow, Arms, Torso, LeftLeg, Base, Closing >>,
       << <<>>, Beam, Rope, HeadRow, Arms, Torso, Torso, Base, Closing >>,
       << <<>>, Beam, Rope, HeadRow, OneArm, Torso, Torso, Base, Closing >>,
       << <<>>, Beam, Rope, HeadRow, Torso, Torso, Torso, Base, Closing >>,
       << <<>>, Beam, Rope, HeadRow, Pole, Pole, Pole, Base, Closing >>,
       << <<>>, Beam, Rope, Pole, Pole, Pole, Pole, Base, Closing >> >>

\* the stage list of hangman_game_Version2.py, which writes each backslash
\* doubled
stagesV2 ==
    << << <<>>, Beam, Rope, HeadRow, Arms, Torso, Legs, Base, Closing >>,
       << <<>>, Beam, Rope, HeadRow, Arms, Torso, LeftLeg, Base, Closing >>,
       << <<>>, Beam, Rope, HeadRow, Arms, Torso, Pole, Base, Closing >>,
       << <<>>, Beam, Rope, HeadRow, OneArm, Torso, Pole, Base, Closing >>,
       << <<>>, Beam, Rope, HeadRow, Torso, Torso, Pole, Base, Closing >>,
       << <<>>, Beam, Rope, HeadRow, Pole, Pole, Pole, Base, Closing >>,
       << <<>>, Beam, Rope, Pole, Pole, Pole, Pole, Base, Closing >> >>

\* index into stages (0 is the complete figure, 6 the empty gallows)
display_hangman(n) == Max(0, Min(6, 6 - n))
display_hangmanV2(n) == 6 - n

\* the string display_hangman returns (stages[idx], counted from 0)
Art(v, n) ==
    IF v = 1 THEN stages[display_hangman(n) + 1] ELSE stagesV2[display_hangmanV2(n) + 1]

\* the frame, the masked word, the guessed letters and the remaining guesses
display_game_status(word, guessed, incorrect, max_guesses) ==
    [frame |-> display_hangman(incorrect),
     word |-> display_game_state(word, guessed),
     guessed |-> guessed,
     remaining |-> max_guesses - incorrect]

\* Version2 prints the alphabet row: only one-letter entries show
display_game_statusV2(word, guessed, incorrect, max_guesses) ==
    [frame |-> display_hangmanV2(incorrect),
     word |-> display_game_state(word, guessed),
     guessed |-> {<<l>> : l \in {c \in Lowercase : <<c>> \in guessed}},
     remaining |-> max_guesses - incorrect]

\* the word counted complete when as many guesses were made as it has letters
AllGuessed_ByCount(word, guessed) == Cardinality(guessed) = Len(word)

\* the word counted complete as soon as one of its letters was guessed
AllGuessed_Any(word, guessed) == \E i \in 1..Len(word) : <<word[i]>> \in guessed

\* all(letter in guessed_letters for letter in secret_word)
AllGuessed(word, guessed) == \A i \in 1..Len(word) : <<word[i]>> \in guessed

-----------------------------------------------------------------------------
(* load_words *)

\* the built-in list (two words over the model's alphabet)
default_words == << <<"a", "b">>, <<"b", "a", "a">> >>

\* a candidate path: missing, present but failing to open or decode, or a
\* file with its lines
NoFile == [exists |-> FALSE, readable |-> FALSE, lines |-> <<>>]
BadFile == [exists |-> TRUE, readable |-> FALSE, lines |-> <<>>]
File(lines) == [exists |-> TRUE, readable |-> TRUE, lines |-> lines]

\* the contents a words.txt may have
Contents ==
    {<<>>,
     << <<" ">>, <<>> >>,
     << <<" ", "A", "b", " ">>, <<>>, <<"b", "a", "a">> >>,
     << <<"a", "5">> >>,
     << <<"a", " ", "b">> >>}

FileStates == {NoFile, BadFile} \cup {File(c) : c \in Contents}

\* assets/words.txt, words.txt, ../assets/words.txt
FileSystems == [1..3 -> FileStates]

\* [w.strip().lower() for w in f.readlines() if w.strip()]
RECURSIVE WordsOf(_)
WordsOf(lines) ==
    IF lines = <<>> THEN <<>>
    ELSE (IF strip(Head(lines)) # <<>>
          THEN <<lower(strip(Head(lines)))>>
          ELSE <<>>) \o WordsOf(Tail(lines))

\* the loop over possible_paths from the i-th on; an exception while
\* reading, or no file with words, gives the default list
RECURSIVE ScanPaths(_, _)
ScanPaths(fs, i) ==
    IF i > Len(fs) THEN default_words
    ELSE IF ~fs[i].exists THEN ScanPaths(fs, i + 1)
    ELSE IF ~fs[i].readable THEN default_words
    ELSE IF WordsOf(fs[i].lines) # <<>> THEN WordsOf(fs[i].lines)
    ELSE ScanPaths(fs, i + 1)

load_words(fs) == ScanPaths(fs, 1)

Range(q) == {q[i] : i \in 1..Len(q)}

\* the lists load_words can return
WordLists == {load_words(fs) : fs \in FileSystems}

-----------------------------------------------------------------------------
(* play_hangman *)

NoInput == [ok |-> FALSE, msg |-> "", guess |-> <<>>]

Show(v, word, guessed, incorrect) ==
    IF v = 1
    THEN display_game_status(word, guessed, incorrect, max_incorrect_guesses)
    ELSE display_game_statusV2(word, guessed, incorrect, max_incorrect_guesses)

\* a new round: word chosen, counters reset, first display
StartRound(w) ==
    /\ secret_word' = lower(w)
    /\ incorrect_guesses' = 0
    /\ guessed_letters' = {}
    /\ turns_taken' = 0
    /\ screen' = Show(version, lower(w), {}, 0)
    /\ message' = "none"
    /\ retval' = "None"
    /\ last' = NoInput
    /\ status' = "InProgress"
    /\ pc' = "play"

Init ==
    /\ version \in {1, 2}
    /\ \E w \in word_list :
        /\ secret_word = lower(w)
        /\ screen = Show(version, lower(w), {}, 0)
    /\ incorrect_guesses = 0
    /\ guessed_letters = {}
    /\ turns_taken = 0
    /\ message = "none"
    /\ retval = "None"
    /\ last = NoInput
    /\ status = "InProgress"
    /\ pc = "play"

\* the loop test written <=
LoopCond_Le(n) == n <= max_incorrect_guesses

\* while incorrect_guesses < max_incorrect_guesses
LoopCond(n) == n < max_incorrect_guesses

\* the increment outside the else branch
Mistakes_Always(hit, n) == n + 1

\* if guess in secret_word: ... else: incorrect_guesses += 1
Mistakes(hit, n) == IF hit THEN n ELSE n + 1

\* the win message printed without the return
Win_NoReturn(v, guessed) ==
    /\ incorrect_guesses' = incorrect_guesses
    /\ screen' = Show(v, secret_word, guessed, incorrect_guesses)
    /\ message' = "win"
    /\ UNCHANGED <<retval, status, pc>>

\* the word is complete: status display, win message, return True
Win(v, guessed) ==
    /\ incorrect_guesses' = incorrect_guesses
    /\ screen' = Show(v, secret_word, guessed, incorrect_guesses)
    /\ message' = "win"
    /\ retval' = "True"
    /\ status' = "Won"
    /\ pc' = "again"

\* any other accepted guess: status display, then the loop test; when it
\* fails, lose message and return False
Continue(v, guessed, hit) ==
    LET n == Mistakes(hit, incorrect_guesses) IN
    /\ incorrect_guesses' = n
    /\ screen' = Show(v, secret_word, guessed, n)
    /\ IF LoopCond(n)
       THEN UNCHANGED <<status, pc, retval, message>>
       ELSE /\ message' = "lose"
            /\ retval' = "False"
            /\ status' = "Lost"
            /\ pc' = "again"

\* what follows guessed_letters.add(guess); `hit` is `guess in secret_word`
Outcome(v, guessed, hit) ==
    IF hit /\ AllGuessed(secret_word, guessed)
    THEN Win(v, guessed)
    ELSE Continue(v, guessed, hit)

\* a rejected input charged as a mistake
Reject_Penalty(v) ==
    /\ incorrect_guesses' = incorrect_guesses + 1
    /\ screen' = Show(v, secret_word, guessed_letters, incorrect_guesses + 1)
    /\ UNCHANGED <<guessed_letters, status, pc, retval, message>>

\* if not is_valid: print the message, display the status again, continue
Reject(v) ==
    /\ screen' = Show(v, secret_word, guessed_letters, incorrect_guesses)
    /\ UNCHANGED <<guessed_letters, incorrect_guesses, status, pc, retval,
                   message>>

\* hangman_game.py, one iteration of the loop with the line `raw` read
PlayV1(raw) ==
    /\ version = 1
    /\ pc = "play"
    /\ status = "InProgress"
    /\ LoopCond(incorrect_guesses)
    /\ turns_taken < MaxTurns
    /\ LET r == validate_guess(raw, guessed_letters) IN
       /\ last' = r
       /\ IF ~r.ok
          THEN /\ Reject(1)
               /\ UNCHANGED turns_taken
          ELSE /\ turns_taken' = turns_taken + 1
               /\ guessed_letters' = guessed_letters \cup {r.guess}
               /\ Outcome(1, guessed_letters \cup {r.guess},
                          InStr(r.guess, secret_word))
    /\ UNCHANGED <<version, secret_word>>

\* hangman_game_Version2.py, one iteration of the loop with the line `raw` read
PlayV2(raw) ==
    /\ version = 2
    /\ pc = "play"
    /\ status = "InProgress"
    /\ LoopCond(incorrect_guesses)
    /\ turns_taken < MaxTurns
    /\ LET guess == lower(raw)
           r == validate_guess(guess, guessed_letters) IN
       /\ last' = r
       /\ turns_taken' = turns_taken + 1
       /\ IF ~r.ok
          THEN Reject(2)
          ELSE /\ guessed_letters' = guessed_letters \cup {guess}
               /\ Outcome(2, guessed_letters \cup {guess},
                          InStr(guess, secret_word))
    /\ UNCHANGED <<version, secret_word>>

\* input() raises an Exception (EOFError): the inner handler prints the error
\* and the loop goes on (hangman_game.py displays the status again)
InputError ==
    /\ pc = "play"
    /\ status = "InProgress"
    /\ last' = Rejected(ErrorProcessing, <<>>)
    /\ screen' = IF version = 1
                 THEN Show(1, secret_word, guessed_letters, incorrect_guesses)
                 ELSE screen
    /\ UNCHANGED <<version, secret_word, guessed_letters, incorrect_guesses,
                   turns_taken, status, pc, retval, message>>

\* the interrupt handled by leaving the loop, so that the lose message is shown
Interrupt_Break ==
    /\ pc = "play"
    /\ status = "InProgress"
    /\ message' = "lose"
    /\ retval' = "False"
    /\ status' = "Interrupted"
    /\ pc' = "again"
    /\ UNCHANGED <<version, secret_word, guessed_letters, incorrect_guesses,
                   turns_taken, screen, last>>

\* KeyboardInterrupt at input(): re-raised, caught by the outer handler
Interrupt ==
    /\ pc = "play"
    /\ status = "InProgress"
    /\ message' = "interrupted"
    /\ retval' = "False"
    /\ status' = "Interrupted"
    /\ pc' = "again"
    /\ UNCHANGED <<version, secret_word, guessed_letters, incorrect_guesses,
                   turns_taken, screen, last>>

-----------------------------------------------------------------------------
(* main: the play-again prompt *)

PlayAgain(k) ==
    /\ pc = "again"
    /\ IF k \in {<<"y">>, <<"y", "e", "s">>}
       THEN \E w \in word_list : StartRound(w)
       ELSE IF k \in {<<"n">>, <<"n", "o">>}
       THEN /\ pc' = "exit"
            /\ UNCHANGED <<secret_word, guessed_letters, incorrect_guesses,
                           turns_taken, status, screen, retval, last, message>>
       ELSE UNCHANGED <<secret_word, guessed_letters, incorrect_guesses,
                        turns_taken, status, screen, retval, last, message, pc>>
    /\ UNCHANGED version

\* KeyboardInterrupt at the prompt
MainInterrupt ==
    /\ pc = "again"
    /\ pc' = "exit"
    /\ UNCHANGED <<version, secret_word, guessed_letters, incorrect_guesses,
                   turns_taken, status, screen, retval, last, message>>

-----------------------------------------------------------------------------

Next ==
    \/ \E raw \in RawInputs : PlayV1(raw)
    \/ \E raw \in RawInputs : PlayV2(raw)
    \/ InputError
    \/ Interrupt
    \/ \E k \in Answers : PlayAgain(k)
    \/ MainInterrupt

Spec == Init /\ [][Next]_vars

\* hangman_game.py alone
InitV1 == Init /\ version = 1

NextV1 ==
    \/ \E raw \in RawInputs : PlayV1(raw)
    \/ InputError
    \/ Interrupt
    \/ \E k \in Answers : PlayAgain(k)
    \/ MainInterrupt

SpecV1 == InitV1 /\ [][NextV1]_vars

\* hangman_game.py with the word list read by load_words
InitLoad ==
    /\ version = 1
    /\ \E ws \in WordLists : \E w \in Range(ws) :
        /\ secret_word = lower(w)
        /\ screen = Show(1, lower(w), {}, 0)
    /\ incorrect_guesses = 0
    /\ guessed_letters = {}
    /\ turns_taken = 0
    /\ message = "none"
    /\ retval = "None"
    /\ last = NoInput
    /\ status = "InProgress"
    /\ pc = "play"

\* the play-again prompt; a new round calls load_words again
PlayAgainLoad(k) ==
    /\ pc = "again"
    /\ IF k \in {<<"y">>, <<"y", "e", "s">>}
       THEN \E ws \in WordLists : \E w \in Range(ws) : StartRound(w)
       ELSE IF k \in {<<"n">>, <<"n", "o">>}
       THEN /\ pc' = "exit"
            /\ UNCHANGED <<secret_word, guessed_letters, incorrect_guesses,
                           turns_taken, status, screen, retval, last, message>>
       ELSE UNCHANGED <<secret_word, guessed_letters, incorrect_guesses,
                        turns_taken, status, screen, retval, last, message, pc>>
    /\ UNCHANGED version

NextLoad ==
    \/ \E raw \in RawInputs : PlayV1(raw)
    \/ InputError
    \/ Interrupt
    \/ \E k \in Answers : PlayAgainLoad(k)
    \/ MainInterrupt

SpecLoad == InitLoad /\ [][NextLoad]_vars


-----------------------------------------------------------------------------
(* Properties *)

\* one-letter lowercase str
LetterStrings == {<<c>> : c \in Lowercase}

\* the letter l occurs in the word w
LetterInWord(l, w) == \E i \in 1..Len(w) : <<w[i]>> = l

\* a step of the round in which a line was read and validated
GuessStep ==
    /\ pc = "play"
    /\ status = "InProgress"
    /\ turns_taken' # turns_taken \/ last' # last
    /\ last'.msg # ErrorProcessing

\* a guess step whose input passed validate_guess
AcceptedStep == GuessStep /\ last'.ok

\* C1: in every step of a round incorrect_guesses stays or grows by exactly
\* 1, and it grows exactly when the input passed validate_guess and the
\* validated letter does not occur in the secret word.
C1_MistakeCountStep ==
    [][status = "InProgress" =>
        /\ incorrect_guesses' \in {incorrect_guesses, incorrect_guesses + 1}
        /\ (incorrect_guesses' = incorrect_guesses + 1)
             <=> (AcceptedStep /\ ~LetterInWord(last'.guess, secret_word))]_vars

\* C2: whenever every letter of the secret word is in guessed_letters the
\* round is Won (win message shown, True returned), whatever the mistake
\* count.
C2_AllGuessedIsWon ==
    (\A i \in 1..Len(secret_word) : <<secret_word[i]>> \in guessed_letters)
        => (status = "Won" /\ message = "win" /\ retval = "True")

C2_Witness ==
    /\ status = "Won"
    /\ incorrect_guesses = max_incorrect_guesses - 1
    /\ \A i \in 1..Len(secret_word) : <<secret_word[i]>> \in guessed_letters

\* C3: once incorrect_guesses equals max_incorrect_guesses the round is Lost
\* (no guess is requested, the lose message is shown, False is returned, 0
\* guesses remain), and a round becomes Lost only by an accepted guess whose
\* letter is absent from the word.
C3_LostAtMax ==
    [][/\ (incorrect_guesses' = max_incorrect_guesses) =>
            /\ status' = "Lost"
            /\ pc' # "play"
            /\ message' = "lose"
            /\ retval' = "False"
            /\ screen'.remaining = 0
       /\ (status # "Lost" /\ status' = "Lost") =>
            /\ AcceptedStep
            /\ ~LetterInWord(last'.guess, secret_word)
            /\ incorrect_guesses' = incorrect_guesses + 1]_vars

C3_Witness ==
    /\ version = 1
    /\ status = "Lost"
    /\ incorrect_guesses = max_incorrect_guesses
    /\ last.ok

\* C4: the masked word on display has one entry per position of the secret
\* word, in order, separated by single spaces; the entry is the letter when
\* it is in guessed_letters and "_" otherwise.
C4_MaskedWord ==
    /\ Len(screen.word) = 2 * Len(secret_word) - 1
    /\ \A i \in 1..Len(secret_word) :
        screen.word[2 * i - 1] =
            IF <<secret_word[i]>> \in guessed_letters THEN secret_word[i] ELSE "_"
    /\ \A i \in 1..(Len(secret_word) - 1) : screen.word[2 * i] = " "

C4_Witness ==
    /\ secret_word = <<"b", "a", "a">>
    /\ guessed_letters = {<<"a">>, <<"c">>}
    /\ screen.word = <<"_", " ", "a", " ", "a">>

\* the letter l was guessed before: some accepted guess normalises to it
PreviouslyGuessed(l) == \E g \in guessed_letters : lower(strip(g)) = l

\* C5: a guess of a letter guessed before, in either case and with or
\* without blanks around it, is rejected as AlreadyGuessed and changes
\* neither incorrect_guesses nor guessed_letters.
C5_RepeatedLetterRejected ==
    [][(GuessStep /\ PreviouslyGuessed(last'.guess)) =>
        /\ ~last'.ok
        /\ last'.msg = AlreadyGuessed
        /\ UNCHANGED <<incorrect_guesses, guessed_letters>>]_vars

\* C6: a rejected guess changes neither guessed_letters, incorrect_guesses,
\* the secret word nor the InProgress status, and the next guess is asked for.
C6_RejectedKeepsState ==
    [][(GuessStep /\ ~last'.ok) =>
        /\ UNCHANGED <<guessed_letters, incorrect_guesses, secret_word, status>>
        /\ status' = "InProgress"
        /\ pc' = "play"
        /\ LoopCond(incorrect_guesses')]_vars

C6_Witness ==
    /\ status = "InProgress"
    /\ ~last.ok
    /\ last.msg = NotSingleLetter
    /\ incorrect_guesses > 0
    /\ guessed_letters # {}

\* inputs for validate_guess: a trimmed core with blanks around it
ValidateCores ==
    {<<>>, <<"a">>, <<"A">>, <<"c">>, <<"C">>, <<"h">>, <<"5">>, <<"eacute">>,
     <<"a", "b">>, <<"5", "5">>, <<"a", " ", "b">>, <<"eacute", "a">>}

Pad(n) == [i \in 1..n |-> " "]

AsciiLower(c) == IF c = "A" THEN "a" ELSE IF c = "C" THEN "c" ELSE c

\* the result the ordered pipeline prescribes for a trimmed input
Prescribed(core, guessed) ==
    CASE core = <<>> -> Rejected(EmptyInput, <<>>)
      [] core # <<>> /\ Len(core) # 1 -> Rejected(NotSingleLetter, <<>>)
      [] Len(core) = 1 /\ core[1] \notin Lowercase \cup Uppercase ->
            Rejected(NotALetter, <<>>)
      [] Len(core) = 1 /\ core[1] \in Lowercase \cup Uppercase
            /\ <<AsciiLower(core[1])>> \in guessed ->
            Rejected(AlreadyGuessed, <<AsciiLower(core[1])>>)
      [] Len(core) = 1 /\ core[1] \in Lowercase \cup Uppercase
            /\ <<AsciiLower(core[1])>> \notin guessed ->
            Accepted(<<AsciiLower(core[1])>>)

\* C7: validate_guess applies its checks in order: empty after trimming,
\* length other than 1, not an ASCII letter, already guessed; otherwise it
\* returns the lowercase letter.
C7_ValidateOrder ==
    \A core \in ValidateCores : \A i \in 0..MaxPad : \A j \in 0..MaxPad :
        validate_guess(Pad(i) \o core \o Pad(j), guessed_letters)
            = Prescribed(core, guessed_letters)

C7_Witness ==
    /\ last = Rejected(AlreadyGuessed, <<"a">>)
    /\ <<"a">> \in guessed_letters
    /\ validate_guess(<<"5">>, guessed_letters) = Rejected(NotALetter, <<>>)
    /\ validate_guess(<<"a", "b">>, guessed_letters) = Rejected(NotSingleLetter, <<>>)
    /\ validate_guess(<<>>, guessed_letters) = Rejected(EmptyInput, <<>>)

\* C8: guessed_letters holds single lowercase letters only and only grows
\* during a round; an accepted guess inserts exactly the letter returned by
\* validate_guess.
C8_GuessedLettersGrow ==
    [][status = "InProgress" =>
        /\ guessed_letters \subseteq guessed_letters'
        /\ guessed_letters' \subseteq LetterStrings
        /\ AcceptedStep => guessed_letters' = guessed_letters \cup {last'.guess}
        /\ ~AcceptedStep => guessed_letters' = guessed_letters]_vars

\* C9: 0 <= incorrect_guesses <= max_incorrect_guesses; the remaining count
\* on display is max - incorrect, never negative, at least 1 while a guess
\* is requested and 0 at Loss.
C9_MistakeRange ==
    /\ incorrect_guesses \in 0..max_incorrect_guesses
    /\ screen.remaining = max_incorrect_guesses - incorrect_guesses
    /\ screen.remaining >= 0
    /\ status = "InProgress" => screen.remaining >= 1
    /\ status = "Lost" => screen.remaining = 0

C9_Witness ==
    /\ status = "Lost"
    /\ screen.remaining = 0
    /\ incorrect_guesses = max_incorrect_guesses

\* C10: a round starts InProgress with no mistakes and no guessed letters;
\* Won and Lost are terminal: until a new round starts nothing of the round
\* changes; and the win and the lose message go with Won and Lost only.
C10_TerminalStates ==
    /\ status = "InProgress" /\ incorrect_guesses = 0 /\ guessed_letters = {}
    /\ [][/\ (status' = "InProgress" /\ status # "InProgress") =>
               /\ incorrect_guesses' = 0
               /\ guessed_letters' = {}
               /\ message' = "none"
               /\ retval' = "None"
          /\ status \in {"Won", "Lost"} =>
               \/ UNCHANGED <<secret_word, guessed_letters, incorrect_guesses,
                              turns_taken, status, screen, message, retval, last>>
               \/ /\ status' = "InProgress"
                  /\ pc = "again"
                  /\ pc' = "play"
          /\ message' = "win" => (status' = "Won" /\ retval' = "True")
          /\ message' = "lose" => (status' = "Lost" /\ retval' = "False")
          /\ status' = "Won" => message' = "win"
          /\ status' = "Lost" => message' = "lose"]_vars

C10_Witness ==
    /\ pc = "exit"
    /\ status = "Won"
    /\ message = "win"
    /\ incorrect_guesses > 0

\* the distinct characters of a word
DistinctLetters(w) == {w[i] : i \in 1..Len(w)}

\* the most accepted guesses a round on the word w can take
GuessBound(w) ==
    Min(Cardinality(DistinctLetters(w)) + max_incorrect_guesses - 1,
        Cardinality(Lowercase))

\* C11: a round is over (Won or Lost) after at most
\* |distinct letters of the word| + max_incorrect_guesses - 1 accepted
\* guesses, and never takes more guesses than there are letters.
C11_BoundedRound ==
    /\ turns_taken <= GuessBound(secret_word)
    /\ turns_taken = GuessBound(secret_word) => status \in {"Won", "Lost"}

C11_Witness ==
    /\ turns_taken = GuessBound(secret_word)
    /\ status = "Won"
    /\ incorrect_guesses = max_incorrect_guesses - 1

\* the word list is non-empty, its entries are non-blank, stripped and
\* lowercased, and it is the words of a readable file when one has words
\* and the built-in list otherwise
WordListOk(fs) ==
    LET ws == load_words(fs)
        sources == {i \in 1..Len(fs) :
                       fs[i].exists /\ fs[i].readable /\ WordsOf(fs[i].lines) # <<>>}
    IN  /\ ws # <<>>
        /\ \A i \in 1..Len(ws) :
            /\ ws[i] # <<>>
            /\ ~IsSpace(ws[i][1]) /\ ~IsSpace(ws[i][Len(ws[i])])
            /\ \A j \in 1..Len(ws[i]) : ws[i][j] \notin Uppercase
        /\ \/ ws = default_words
           \/ \E i \in sources : ws = WordsOf(fs[i].lines)
        /\ sources = {} => ws = default_words

\* the secret word is a non-empty string of lowercase letters
WordOk == secret_word # <<>> /\ \A i \in 1..Len(secret_word) : secret_word[i] \in Lowercase

\* C13: load_words returns a non-empty list of stripped, lowercased,
\* non-blank entries (a words file's, or the built-in list), the secret word
\* is a non-empty lowercase alphabetic string, and it stays fixed during the
\* round.
C13_WordSource ==
    /\ WordOk
    /\ \A fs \in FileSystems : WordListOk(fs)
    /\ [][/\ WordOk'
          /\ pc = "play" => secret_word' = secret_word]_vars

\* C14: the turn count goes up by one on an accepted guess and is left alone
\* by every other step of the round, so rejected inputs never consume a turn
\* and the count reported on a win is the number of accepted guesses.
C14_RejectedNoTurn ==
    [][(pc = "play" /\ status = "InProgress") =>
          turns_taken' = turns_taken + (IF AcceptedStep THEN 1 ELSE 0)]_vars

\* every letter of the secret word is among the guessed letters
Complete == \A i \in 1..Len(secret_word) : <<secret_word[i]>> \in guessed_letters

\* an accepted guess whose letter occurs in the word
CorrectStep == AcceptedStep /\ LetterInWord(last'.guess, secret_word)

WrongGuesses == {g \in guessed_letters : ~LetterInWord(g, secret_word)}

\* C16: incorrect_guesses is the number of guessed letters that do not occur
\* in the secret word, and guessed_letters, empty at the start of the round,
\* grows by one element with every accepted guess and by nothing else, so
\* its size is the number of accepted guesses.
C16_CountsMatchSet ==
    /\ incorrect_guesses = Cardinality(WrongGuesses)
    /\ guessed_letters = {}
    /\ [][/\ incorrect_guesses' = Cardinality(WrongGuesses')
          /\ (pc = "play" /\ status = "InProgress") =>
                 Cardinality(guessed_letters') =
                     Cardinality(guessed_letters) + (IF AcceptedStep THEN 1 ELSE 0)]_vars

\* the column of the hanged figure's head and body
BodyCol == Len(HeadRow)

\* the character of a line at a column, blank beyond its end
CharAt(line, c) == IF c \in 1..Len(line) THEN line[c] ELSE " "

\* the rows below the rope
FigureRows(f) == {r \in 1..Len(f) : r > 3}

\* the places of a frame where a part of the figure is drawn
Drawn(f) ==
    {rc \in FigureRows(f) \X ((BodyCol - 1)..(BodyCol + 1)) :
        CharAt(f[rc[1]], rc[2]) # " "}

\* nothing hangs from the rope
EmptyGallows(f) == Drawn(f) = {}

\* head, both arms and both legs are drawn
CompleteFigure(f) ==
    \E h, a, l \in FigureRows(f) :
        /\ h < a /\ a < l
        /\ CharAt(f[h], BodyCol) = "O"
        /\ CharAt(f[a], BodyCol - 1) = "\\" /\ CharAt(f[a], BodyCol + 1) = "/"
        /\ CharAt(f[l], BodyCol - 1) = "/" /\ CharAt(f[l], BodyCol + 1) = "\\"

StagesOf(v) == IF v = 1 THEN stages ELSE stagesV2

\* C17: display_hangman has one frame per mistake count 0..6: the index
\* 6 - n of the frame shown lies within the stage list of 7 entries,
\* different counts give different frames, 0 mistakes give the empty gallows
\* and max_incorrect_guesses mistakes the complete figure.
C17_OneFramePerCount ==
    /\ Len(StagesOf(version)) = max_incorrect_guesses + 1
    /\ screen.frame = 6 - incorrect_guesses
    /\ screen.frame \in 0..(Len(StagesOf(version)) - 1)
    /\ \A m, n \in 0..max_incorrect_guesses :
           m # n => Art(version, m) # Art(version, n)
    /\ incorrect_guesses = 0 => EmptyGallows(Art(version, incorrect_guesses))
    /\ incorrect_guesses = max_incorrect_guesses =>
           CompleteFigure(Art(version, incorrect_guesses))

\* a step in which the error message of the inner handler was printed
ErrorStep == last' # last /\ last'.msg = ErrorProcessing

\* C18: a KeyboardInterrupt during a round abandons it at once: no guess is
\* applied, the message is neither the win nor the lose message,
\* play_hangman returns False, and nothing of the round changes afterwards;
\* any other exception leaves the round InProgress, unchanged, asking for
\* the next guess.
C18_InterruptAbandons ==
    [][/\ (status # "Interrupted" /\ status' = "Interrupted") =>
              /\ status = "InProgress" /\ pc = "play"
              /\ message' = "interrupted"
              /\ retval' = "False"
              /\ pc' = "again"
              /\ UNCHANGED <<secret_word, guessed_letters, incorrect_guesses,
                             turns_taken, screen, last>>
       /\ status = "Interrupted" =>
              \/ UNCHANGED <<secret_word, guessed_letters, incorrect_guesses,
                             turns_taken, status, screen, message, retval, last>>
              \/ /\ pc = "again"
                 /\ status' = "InProgress"
                 /\ guessed_letters' = {}
                 /\ incorrect_guesses' = 0
       /\ ErrorStep =>
              /\ status' = "InProgress"
              /\ pc' = "play"
              /\ UNCHANGED <<secret_word, guessed_letters, incorrect_guesses,
                             turns_taken, status, message, retval>>]_vars

\* a round interrupted after a wrong guess and a failed read
C18_Witness ==
    /\ status = "Interrupted"
    /\ message = "interrupted"
    /\ retval = "False"
    /\ last.msg = ErrorProcessing
    /\ incorrect_guesses > 0

====
